---- MODULE Spec2Model ----
(***************************************************************************)
(* parel: a command template is compiled into literal/placeholder segments, *)
(* every combination of the wordlists is enumerated by a mixed-radix        *)
(* decomposition of a linear job index, and a pool of worker threads claims *)
(* job indices from a mutex-protected counter and runs the rendered         *)
(* commands.                                                                *)
(*                                                                          *)
(* Strings are sequences of one-character strings; Rust's 0-based byte      *)
(* offsets are kept and turned into 1-based positions where a sequence is   *)
(* indexed.                                                                 *)
(***************************************************************************)
EXTENDS Integers, Sequences, FiniteSets, TLC

VARIABLES
    \* ---- the program (main and its worker threads) ----
    pc,               \* position of the main thread
    args,             \* the parsed command line (struct Cli)
    index,            \* main: index
    files,            \* main: files, sequence of <<identifier, path>>
    total_words,      \* main: total_words
    loaded_wordlist,  \* main: loaded_wordlist, sequence of <<identifier, lines>>
    wordlist_lengths, \* main: wordlist_lengths
    template,         \* main: template, sequence of <<selector, literal>>
    progress_bar,     \* main: progress_bar (Option<Arc<Mutex<ProgressBar>>>)
    next_job,         \* the value inside the Mutex next_job
    next_job_owner,   \* the worker holding the lock of next_job, 0 when free
    spawned,          \* number of threads pushed onto main's `threads`
    joined,           \* number of threads main has joined
    wpc,              \* position of each worker thread
    wout,             \* worker local `out`
    wjob,             \* worker local `job`
    wcommand,         \* worker local `command`
    claimed,          \* job indices in the order they left the claim block
    rendered,         \* job index -> number of gen_command calls with it
    executed,         \* job index -> number of execute_command calls with it
    any_success,      \* whether some execute_command call has succeeded
    stdout,           \* lines printed by main itself (--show)
    exit_code,        \* exit status of the process, -1 while running
    \* ---- product applied to chosen inputs ----
    p_sizes,          \* the sizes handed to product
    p_tab,            \* p_tab[n+1] = product(n, p_sizes) for the n applied so far
    \* ---- precompute_template and gen_command applied to chosen inputs ----
    t_command,        \* the raw command
    t_index,          \* the index-identifier ("" when none)
    t_wordlist,       \* sequence of <<identifier, lines>>
    t_template,       \* <<>> before compilation, <<the template>> after
    t_renders         \* t_renders[n+1] = gen_command(template, n, ...) so far

mainVars == <<pc, args, index, files, total_words, loaded_wordlist,
              wordlist_lengths, template, progress_bar, next_job,
              next_job_owner, spawned, joined, wpc, wout, wjob, wcommand,
              claimed, rendered, executed, any_success, stdout, exit_code>>
productVars == <<p_sizes, p_tab>>
templateVars == <<t_command, t_index, t_wordlist, t_template, t_renders>>
harnessVars == <<productVars, templateVars>>
vars == <<mainVars, harnessVars>>

----------------------------------------------------------------------------
(* Bounds of the model *)

MaxThreads == 2     \* largest --threads value explored
MaxShow == 4        \* largest --show value explored
MaxSize == 3        \* largest wordlist length handed to product
MaxLists == 3       \* largest number of wordlists handed to product
MaxBeyond == 2      \* how far past total product is applied
MaxCmdLen == 3      \* longest generated command
MaxIdLen == 2       \* longest generated identifier
MaxTLists == 2      \* largest number of wordlists of a generated template input

----------------------------------------------------------------------------
(* Strings *)

Digits == <<"0", "1", "2", "3", "4", "5", "6", "7", "8", "9">>

AsciiAlphanumeric ==
    {"0", "1", "2", "3", "4", "5", "6", "7", "8", "9",
     "a", "b", "c", "d", "e", "f", "g", "h", "i", "j", "k", "l", "m",
     "n", "o", "p", "q", "r", "s", "t", "u", "v", "w", "x", "y", "z",
     "A", "B", "C", "D", "E", "F", "G", "H", "I", "J", "K", "L", "M",
     "N", "O", "P", "Q", "R", "S", "T", "U", "V", "W", "X", "Y", "Z"}

\* input.chars().all(|c| c.is_ascii_alphanumeric())
is_alphanumeric(input) == \A k \in 1..Len(input) : input[k] \in AsciiAlphanumeric

\* s[i..] for a 0-based offset i <= s.len()
slice_from(s, i) == SubSeq(s, i + 1, Len(s))

\* s[..i] for a 0-based offset i <= s.len()
slice_to(s, i) == SubSeq(s, 1, i)

\* str::starts_with
starts_with(s, prefix) ==
    Len(prefix) <= Len(s) /\ SubSeq(s, 1, Len(prefix)) = prefix

\* str::contains
contains(s, pat) == \E i \in 0..Len(s) : starts_with(slice_from(s, i), pat)

RECURSIVE to_string(_)
\* usize::to_string: the decimal digits, most significant first
to_string(n) ==
    IF n < 10 THEN <<Digits[n + 1]>>
    ELSE to_string(n \div 10) \o <<Digits[(n % 10) + 1]>>

RECURSIVE SeqsUpTo(_, _)
\* all sequences over S of length 0..n
SeqsUpTo(S, n) ==
    IF n = 0 THEN {<<>>}
    ELSE LET shorter == SeqsUpTo(S, n - 1)
         IN shorter \cup {Append(s, x) : s \in {t \in shorter : Len(t) = n - 1}, x \in S}

----------------------------------------------------------------------------
(* product: the mixed-radix decomposition of a linear index *)

\* `nth % s` panics when s = 0
DivByZero(sizes) == \E k \in 1..Len(sizes) : sizes[k] = 0

product_push_mut(nth, s) == nth \div s

product_push_wide(nth, s) == nth % (s + 1)

\* out.push(nth % s)
product_push(nth, s) == nth % s

product_next_mut(nth, s) == nth

\* nth /= s
product_next(nth, s) == nth \div s

RECURSIVE product_loop(_, _, _, _)
\* for s in sizes { ... } from the k-th size on
product_loop(nth, sizes, k, out) ==
    IF k > Len(sizes) THEN out
    ELSE product_loop(product_next(nth, sizes[k]), sizes, k + 1,
                      Append(out, product_push(nth, sizes[k])))

\* fn product(nth, sizes); defined when no size is 0
product(nth, sizes) == product_loop(nth, sizes, 1, <<>>)

RECURSIVE SeqProduct(_)
\* the product of the numbers of a sequence (1 for the empty sequence)
SeqProduct(s) == IF s = <<>> THEN 1 ELSE Head(s) * SeqProduct(Tail(s))

----------------------------------------------------------------------------
(* precompute_template: the command compiled into <<selector, literal>>    *)
(* segments; selector 0 is the index-identifier (and the final segment),   *)
(* selector j+1 is wordlist j                                              *)

\* !index.is_empty() && command[i..].starts_with(index)
index_matches(command, i, index_id) ==
    index_id /= <<>> /\ starts_with(slice_from(command, i), index_id)

RECURSIVE first_identifier(_, _, _, _)
\* for j in 0..loaded_wordlist.len() { if command[i..].starts_with(identifier)
\* { ...; break; } }: the selector j+1 of the first wordlist from wordlist j on
\* whose identifier is a prefix of command[i..], 0 when there is none
first_identifier(command, i, wordlist, j) ==
    IF j > Len(wordlist) THEN 0
    ELSE IF starts_with(slice_from(command, i), wordlist[j][1]) THEN j
    ELSE first_identifier(command, i, wordlist, j + 1)

match_identifier_mut(command, i, wordlist) ==
    LET hits == {j \in 1..Len(wordlist) :
                    starts_with(slice_from(command, i), wordlist[j][1])}
    IN IF hits = {} THEN 0
       ELSE CHOOSE j \in hits : \A h \in hits :
                \/ Len(wordlist[h][1]) < Len(wordlist[j][1])
                \/ Len(wordlist[h][1]) = Len(wordlist[j][1]) /\ j <= h

\* the for loop over the wordlists at offset i
match_identifier(command, i, wordlist) == first_identifier(command, i, wordlist, 1)

push_segment_no_literal(st, selector, matched) ==
    [i |-> st.i + Len(matched), tmp |-> <<>>,
     template |-> Append(st.template, <<selector, <<>>>>)]

push_segment_shifted(st, selector, matched) ==
    [i |-> st.i + Len(matched), tmp |-> <<>>,
     template |-> Append(st.template, <<selector + 1, st.tmp>>)]

\* template.push((selector, tmp)); tmp = String::new(); i += matched.len()
push_segment(st, selector, matched) ==
    [i |-> st.i + Len(matched), tmp |-> <<>>,
     template |-> Append(st.template, <<selector, st.tmp>>)]

\* one pass of the body of `while i < command.len()`
template_step(command, index_id, wordlist, st) ==
    LET st1 == IF index_matches(command, st.i, index_id)
               THEN push_segment(st, 0, index_id)
               ELSE st
        j == match_identifier(command, st1.i, wordlist)
        st2 == IF j > 0 THEN push_segment(st1, j, wordlist[j][1]) ELSE st1
        found == index_matches(command, st.i, index_id) \/ j > 0
    IN IF found THEN st2
       ELSE [st2 EXCEPT !.tmp = Append(@, command[st2.i + 1]), !.i = @ + 1]

RECURSIVE template_loop(_, _, _, _)
\* while i < command.len() { ... } template.push((0, tmp)); template
template_loop(command, index_id, wordlist, st) ==
    IF st.i < Len(command)
    THEN template_loop(command, index_id, wordlist,
                       template_step(command, index_id, wordlist, st))
    ELSE Append(st.template, <<0, st.tmp>>)

\* fn precompute_template(command, index, loaded_wordlist)
precompute_template(command, index_id, wordlist) ==
    template_loop(command, index_id, wordlist,
                  [i |-> 0, tmp |-> <<>>, template |-> <<>>])

----------------------------------------------------------------------------
(* gen_command: the command of one job index *)

segment_text_mut(tvalue, idx, wordlist, idxs) ==
    IF tvalue[1] = 0 THEN to_string(idx)
    ELSE wordlist[tvalue[1]][2][idxs[Len(idxs) + 1 - tvalue[1]] + 1]

\* idx.to_string() for selector 0, else
\* loaded_wordlist[tvalue.0-1].1[idxs[tvalue.0-1]]
segment_text(tvalue, idx, wordlist, idxs) ==
    IF tvalue[1] = 0 THEN to_string(idx)
    ELSE wordlist[tvalue[1]][2][idxs[tvalue[1]] + 1]

RECURSIVE gen_loop(_, _, _, _, _, _)
\* for tvalue in &template[..template.len()-1] { ... } from segment k on
gen_loop(tmpl, idx, wordlist, idxs, k, command) ==
    IF k > Len(tmpl) - 1 THEN command
    ELSE gen_loop(tmpl, idx, wordlist, idxs, k + 1,
                  command \o tmpl[k][2] \o segment_text(tmpl[k], idx, wordlist, idxs))

\* the index panics of gen_command: a division by zero in product, or a
\* selector or an offset outside its vector
gen_panics(tmpl, idx, wordlist, lengths) ==
    \/ DivByZero(lengths)
    \/ \E k \in 1..(Len(tmpl) - 1) :
          /\ tmpl[k][1] > 0
          /\ \/ tmpl[k][1] > Len(wordlist)
             \/ tmpl[k][1] > Len(lengths)
             \/ product(idx, lengths)[tmpl[k][1]] >= Len(wordlist[tmpl[k][1]][2])

\* fn gen_command(template, idx, loaded_wordlist, wordlist_lengths);
\* defined when it does not panic
gen_command(tmpl, idx, wordlist, lengths) ==
    gen_loop(tmpl, idx, wordlist, product(idx, lengths), 1, <<>>)
        \o tmpl[Len(tmpl)][2]

----------------------------------------------------------------------------
(* The files of the run's file system: path -> lines, or unreadable *)

FileSystem ==
    (<<"p">> :> [readable |-> TRUE, lines |-> << <<"x">>, <<"y">> >>]) @@
    (<<"q">> :> [readable |-> TRUE, lines |-> << <<"1">>, <<"2">> >>]) @@
    (<<"s">> :> [readable |-> TRUE, lines |-> << <<"z">> >>]) @@
    (<<"t">> :> [readable |-> TRUE, lines |-> << <<"7">>, <<"8">>, <<"9">> >>]) @@
    (<<"e">> :> [readable |-> TRUE, lines |-> << >>]) @@
    (<<"u">> :> [readable |-> FALSE, lines |-> << >>])

\* Path::new(&path).exists()
path_exists(path) == path \in DOMAIN FileSystem

\* read_lines(&path) is Ok
read_ok(path) == path_exists(path) /\ FileSystem[path].readable

\* the lines read_lines(&path) returns
read_lines(path) == FileSystem[path].lines

----------------------------------------------------------------------------
(* main: argument validation *)

None == [some |-> FALSE, val |-> <<>>]
Some(v) == [some |-> TRUE, val |-> v]
NoShow == [some |-> FALSE, val |-> 0]

RECURSIVE split_loop(_, _, _)
\* for j in (0..line.len()).rev() { if line[j..j+1] == ":" { identifier =
\* line[j+1..]; path = line[..j]; } } from offset j - 1 down to 0; there is no
\* break, so the last assignment, at the first ':', stays
split_loop(line, j, acc) ==
    IF j = 0 THEN acc
    ELSE split_loop(line, j - 1,
                    IF line[j] = ":"
                    THEN [identifier |-> slice_from(line, j),
                          path |-> slice_to(line, j - 1)]
                    ELSE acc)

\* identifier and path of one -f argument
split_line(line) == split_loop(line, Len(line), [identifier |-> <<>>, path |-> <<>>])

\* files.iter().any(|(f, _)| f == &identifier || *f == index)
already_exists(fs, identifier, index_id) ==
    \E k \in 1..Len(fs) : fs[k][1] = identifier \/ fs[k][1] = index_id

\* the checks main makes on one -f argument before it pushes it onto files;
\* FALSE is std::process::exit(1)
file_accepted(command, index_id, fs, line) ==
    LET identifier == split_line(line).identifier
        path == split_line(line).path
    IN /\ identifier /= <<>>
       /\ is_alphanumeric(identifier)
       /\ ~already_exists(fs, identifier, index_id)
       /\ path_exists(path)
       /\ contains(command, index_id)
       /\ contains(command, identifier)

RECURSIVE files_loop(_, _, _, _, _)
\* for line in args.file { ... files.push((identifier.clone(), path)); } from
\* the k-th argument on
files_loop(command, index_id, lines, k, fs) ==
    IF k > Len(lines) THEN [ok |-> TRUE, files |-> fs]
    ELSE IF ~file_accepted(command, index_id, fs, lines[k])
         THEN [ok |-> FALSE, files |-> fs]
         ELSE files_loop(command, index_id, lines, k + 1,
                         Append(fs, <<split_line(lines[k]).identifier,
                                      split_line(lines[k]).path>>))

\* let index = if let Some(index) = args.index { ... } else { "".to_string() }
index_of(a) == IF a.index.some THEN a.index.val ELSE <<>>

\* everything main checks before it loads the wordlists
validate(a) ==
    IF a.index.some /\ ~is_alphanumeric(a.index.val)
    THEN [ok |-> FALSE, files |-> <<>>]
    ELSE files_loop(a.command, index_of(a), a.file, 1, <<>>)

\* loaded_wordlist.push((identifier, lines)) for every file
load_wordlists(fs) == [k \in 1..Len(fs) |-> <<fs[k][1], read_lines(fs[k][2])>>]

\* wordlist_lengths.push(lines.len()) for every file
lengths_of(wordlist) == [k \in 1..Len(wordlist) |-> Len(wordlist[k][2])]

----------------------------------------------------------------------------
(* The command lines explored *)

\* command, --index and -f arguments of the runs explored
Scenarios ==
    {
     [command |-> <<"e", "c", "h", "o", " ", "A", "-", "B">>, index |-> None,
      file |-> << <<"p", ":", "A">>, <<"q", ":", "B">> >>],
     [command |-> <<"e", "c", "h", "o", " ", "f", "o", "o", "b", "a", "r">>, index |-> None,
      file |-> << <<"s", ":", "f", "o", "o">>, <<"s", ":", "f", "o", "o", "b", "a", "r">> >>],
     [command |-> <<"a", "a", "b">>, index |-> Some(<<"a">>),
      file |-> << <<"s", ":", "a", "b">> >>],
     [command |-> <<"a">>, index |-> Some(<<"a">>),
      file |-> << <<"s", ":", "a">> >>],
     [command |-> <<"A">>, index |-> None,
      file |-> << <<"p", ":", "A">>, <<"q", ":", "A">> >>],
     [command |-> <<"a", "b">>, index |-> Some(<<"a">>),
      file |-> << <<"s", ":", "a">>, <<"p", ":", "b">> >>],
     [command |-> <<"a", "b">>, index |-> Some(<<"b">>),
      file |-> << <<"s", ":", "a">>, <<"p", ":", "b">> >>],
     [command |-> <<"x">>, index |-> None,
      file |-> << <<"p", ":", "A">> >>],
     [command |-> <<"A">>, index |-> Some(<<"i">>),
      file |-> << <<"p", ":", "A">> >>],
     [command |-> <<"x">>, index |-> Some(<<"i">>),
      file |-> << >>],
     [command |-> <<"A">>, index |-> None,
      file |-> << <<"e", ":", "A">> >>],
     [command |-> <<"x">>, index |-> None,
      file |-> << >>],
     [command |-> <<"A">>, index |-> None,
      file |-> << <<"n", ":", "A">> >>],
     [command |-> <<"A">>, index |-> None,
      file |-> << <<"p", "A">> >>],
     [command |-> <<"A", "-">>, index |-> None,
      file |-> << <<"p", ":", "A", "-">> >>],
     [command |-> <<"A">>, index |-> Some(<<"-">>),
      file |-> << <<"p", ":", "A">> >>],
     [command |-> <<"A">>, index |-> None,
      file |-> << <<"u", ":", "A">> >>],
     [command |-> <<"i", " ", "A">>, index |-> Some(<<"i">>),
      file |-> << <<"p", ":", "A">> >>],
     [command |-> <<"A", " ", "B">>, index |-> None,
      file |-> << <<"p", ":", "A">>, <<"e", ":", "B">> >>],
     [command |-> <<"A", ":", "B">>, index |-> None,
      file |-> << <<"p", ":", "A", ":", "B">> >>]
    }

ShowValues == {NoShow} \cup {[some |-> TRUE, val |-> k] : k \in 0..MaxShow}

ArgsSet ==
    {[command |-> s.command, index |-> s.index, file |-> s.file,
      threads |-> n, show |-> sh, progress |-> pr] :
        s \in Scenarios, n \in 0..MaxThreads, sh \in ShowValues, pr \in BOOLEAN}

Workers == 1..MaxThreads

----------------------------------------------------------------------------
(* main and the worker threads *)

NoProgress == [some |-> FALSE, len |-> 0, pos |-> 0, finished |-> FALSE]

\* f with the count of k raised by one
CountUp(f, k) ==
    IF k \in DOMAIN f THEN [f EXCEPT ![k] = @ + 1] ELSE f @@ (k :> 1)

\* the count of k in f
Count(f, k) == IF k \in DOMAIN f THEN f[k] ELSE 0

workerVars == <<next_job, next_job_owner, wpc, wout, wjob, wcommand, claimed, rendered, executed, any_success>>
setupVars == <<index, files, total_words, loaded_wordlist, wordlist_lengths,
               template>>

\* the state of the program at position p of main, before any of its
\* assignments, with the command line a
MainAt(p, a) ==
    /\ pc = p
    /\ args = a
    /\ index = <<>>
    /\ files = <<>>
    /\ total_words = 1
    /\ loaded_wordlist = <<>>
    /\ wordlist_lengths = <<>>
    /\ template = <<>>
    /\ progress_bar = NoProgress
    /\ next_job = 0
    /\ next_job_owner = 0
    /\ spawned = 0
    /\ joined = 0
    /\ wpc = [w \in Workers |-> "unborn"]
    /\ wout = [w \in Workers |-> 0]
    /\ wjob = [w \in Workers |-> 0]
    /\ wcommand = [w \in Workers |-> <<>>]
    /\ claimed = <<>>
    /\ rendered = <<>>
    /\ executed = <<>>
    /\ any_success = FALSE
    /\ stdout = <<>>
    /\ exit_code = -1

\* std::process::exit(code), a panic of the main thread (code 101), or the
\* return from main (code 0)
Exit(code) == pc' = "exited" /\ exit_code' = code

\* main, lines 125-176: the index-identifier and the -f arguments
ParseArgs ==
    /\ pc = "start"
    /\ IF validate(args).ok
       THEN /\ index' = index_of(args)
            /\ files' = validate(args).files
            /\ pc' = "load"
            /\ UNCHANGED exit_code
       ELSE /\ Exit(1)
            /\ UNCHANGED <<index, files>>
    /\ UNCHANGED <<harnessVars, args, total_words, loaded_wordlist, wordlist_lengths, template,
                   progress_bar, spawned, joined, stdout, workerVars>>

\* main, lines 178-191: read every wordlist; .expect() panics on a read error
LoadWordlists ==
    /\ pc = "load"
    /\ IF \A k \in 1..Len(files) : read_ok(files[k][2])
       THEN /\ loaded_wordlist' = load_wordlists(files)
            /\ wordlist_lengths' = lengths_of(load_wordlists(files))
            /\ total_words' = SeqProduct(lengths_of(load_wordlists(files)))
            /\ pc' = "compile"
            /\ UNCHANGED exit_code
       ELSE /\ Exit(101)
            /\ UNCHANGED <<loaded_wordlist, wordlist_lengths, total_words>>
    /\ UNCHANGED <<harnessVars, args, index, files, template, progress_bar, spawned, joined,
                   stdout, workerVars>>

\* main, line 194
Compile ==
    /\ pc = "compile"
    /\ template' = precompute_template(args.command, index, loaded_wordlist)
    /\ pc' = "show"
    /\ UNCHANGED <<harnessVars, args, index, files, total_words, loaded_wordlist,
                   wordlist_lengths, progress_bar, spawned, joined, stdout,
                   exit_code, workerVars>>

show_rejected_mut(show, total) == show > total

\* show >= total_words
show_rejected(show, total) == show >= total

\* main, lines 196-204: --show K prints one command and exits
Show ==
    /\ pc = "show"
    /\ args.show.some
    /\ IF show_rejected(args.show.val, total_words)
       THEN Exit(1) /\ UNCHANGED stdout
       ELSE IF gen_panics(template, args.show.val, loaded_wordlist, wordlist_lengths)
            THEN Exit(101) /\ UNCHANGED stdout
            ELSE /\ stdout' = Append(stdout, gen_command(template, args.show.val,
                                                         loaded_wordlist, wordlist_lengths))
                 /\ Exit(0)
    /\ UNCHANGED <<harnessVars, args, setupVars, progress_bar, spawned, joined, workerVars>>

\* main, lines 205-222: the progress bar and the job counter
Setup ==
    /\ pc = "show"
    /\ ~args.show.some
    /\ progress_bar' = IF args.progress
                       THEN [some |-> TRUE, len |-> total_words, pos |-> 0,
                             finished |-> FALSE]
                       ELSE NoProgress
    /\ next_job' = 0
    /\ pc' = "spawn"
    /\ UNCHANGED <<harnessVars, args, setupVars, next_job_owner, spawned, joined, wpc, wout,
                   wjob, wcommand, claimed, rendered, executed, any_success,
                   stdout, exit_code>>

\* main, lines 226-254: one pass of `for _ in 0..args.threads`
Spawn ==
    /\ pc = "spawn"
    /\ spawned < args.threads
    /\ spawned' = spawned + 1
    /\ wpc' = [wpc EXCEPT ![spawned + 1] = "lock"]
    /\ UNCHANGED <<harnessVars, pc, args, setupVars, progress_bar, joined, stdout, exit_code,
                   next_job, next_job_owner, wout, wjob, wcommand, claimed, rendered, executed, any_success>>

\* the end of the spawning loop
SpawnDone ==
    /\ pc = "spawn"
    /\ spawned = args.threads
    /\ pc' = "join"
    /\ UNCHANGED <<harnessVars, args, setupVars, progress_bar, spawned, joined, stdout,
                   exit_code, workerVars>>

\* main, lines 256-258: thread.join() of the next thread, its result ignored
Join ==
    /\ pc = "join"
    /\ joined < spawned
    /\ wpc[joined + 1] \in {"done", "panicked"}
    /\ joined' = joined + 1
    /\ UNCHANGED <<harnessVars, pc, args, setupVars, progress_bar, spawned, stdout, exit_code,
                   workerVars>>

\* main, lines 259-262: pb.finish() and the return from main
Finish ==
    /\ pc = "join"
    /\ joined = spawned
    /\ progress_bar' = IF progress_bar.some
                       THEN [progress_bar EXCEPT !.finished = TRUE]
                       ELSE progress_bar
    /\ Exit(0)
    /\ UNCHANGED <<harnessVars, args, setupVars, spawned, joined, stdout, workerVars>>

mainFrame == <<pc, args, setupVars, spawned, joined, stdout, exit_code>>

lock_free_mut(owner) == TRUE

\* the Mutex next_job can be taken
lock_free(owner) == owner = 0

\* worker, line 236: next_job.lock().unwrap()
Lock(w) ==
    /\ wpc[w] = "lock"
    /\ lock_free(next_job_owner)
    /\ next_job_owner' = w
    /\ wpc' = [wpc EXCEPT ![w] = "check"]
    /\ UNCHANGED <<harnessVars, mainFrame, progress_bar, next_job, wout, wjob, wcommand,
                   claimed, rendered, executed, any_success>>

\* out > total_words
no_more_work(out, total) == out > total

owner_after_break_mut(w) == w

\* the break leaves the block, which drops the MutexGuard: the lock is free
owner_after_break(w) == 0

\* worker, lines 237-240: let out = *job; if out > total_words { break; };
\* the break drops the guard and ends the thread
Check(w) ==
    /\ wpc[w] = "check"
    /\ wout' = [wout EXCEPT ![w] = next_job]
    /\ IF no_more_work(next_job, total_words)
       THEN /\ wpc' = [wpc EXCEPT ![w] = "done"]
            /\ next_job_owner' = owner_after_break(w)
       ELSE /\ wpc' = [wpc EXCEPT ![w] = "incr"]
            /\ UNCHANGED next_job_owner
    /\ UNCHANGED <<harnessVars, mainFrame, progress_bar, next_job, wjob, wcommand, claimed, rendered, executed, any_success>>

increment_mut(job) == job + 2

\* *job += 1
increment(job) == job + 1

\* worker, lines 241-245: *job += 1; out; the guard is dropped at the end of
\* the block and `job` is the value read
Increment(w) ==
    /\ wpc[w] = "incr"
    /\ next_job' = increment(next_job)
    /\ wjob' = [wjob EXCEPT ![w] = wout[w]]
    /\ claimed' = Append(claimed, wout[w])
    /\ next_job_owner' = 0
    /\ wpc' = [wpc EXCEPT ![w] = "gen"]
    /\ UNCHANGED <<harnessVars, mainFrame, progress_bar, wout, wcommand, rendered,
                   executed, any_success>>

\* worker, line 246: gen_command(&template, job, ...); a panic ends the thread
GenCommand(w) ==
    /\ wpc[w] = "gen"
    /\ IF gen_panics(template, wjob[w], loaded_wordlist, wordlist_lengths)
       THEN /\ wpc' = [wpc EXCEPT ![w] = "panicked"]
            /\ UNCHANGED <<wcommand, rendered>>
       ELSE /\ wcommand' = [wcommand EXCEPT ![w] =
                    gen_command(template, wjob[w], loaded_wordlist, wordlist_lengths)]
            /\ rendered' = CountUp(rendered, wjob[w])
            /\ wpc' = [wpc EXCEPT ![w] = "exec"]
    /\ UNCHANGED <<harnessVars, mainFrame, progress_bar, next_job, next_job_owner,
                   wout, wjob, claimed, executed, any_success>>

\* the three ways execute_command ends: the subprocess exits with status 0,
\* it exits with another status, or it cannot be launched
Outcomes == {"success", "failure", "launch_error"}

after_execute_mut(outcome) == IF outcome = "launch_error" THEN "panicked" ELSE "tick"

\* where the worker goes when execute_command returns
after_execute(outcome) == "tick"

\* worker, line 247: execute_command(&command, job, args.silent)
Execute(w) ==
    /\ wpc[w] = "exec"
    /\ \E outcome \in Outcomes :
          /\ any_success' = (any_success \/ outcome = "success")
          /\ wpc' = [wpc EXCEPT ![w] = after_execute(outcome)]
    /\ executed' = CountUp(executed, wjob[w])
    /\ UNCHANGED <<harnessVars, mainFrame, progress_bar, next_job, next_job_owner, wout, wjob,
                   wcommand, claimed, rendered>>

\* worker, lines 249-252: pb.lock().unwrap().inc(1), then the next pass
Tick(w) ==
    /\ wpc[w] = "tick"
    /\ progress_bar' = IF progress_bar.some
                       THEN [progress_bar EXCEPT !.pos = @ + 1]
                       ELSE progress_bar
    /\ wpc' = [wpc EXCEPT ![w] = "lock"]
    /\ UNCHANGED <<harnessVars, mainFrame, next_job, next_job_owner, wout, wjob, wcommand,
                   claimed, rendered, executed, any_success>>

Worker(w) ==
    \/ Lock(w)
    \/ Check(w)
    \/ Increment(w)
    \/ GenCommand(w)
    \/ Execute(w)
    \/ Tick(w)

\* the variables of the two function harnesses while the program runs
ProductOff == p_sizes = <<>> /\ p_tab = <<>>
TemplateOff ==
    /\ t_command = <<>>
    /\ t_index = <<>>
    /\ t_wordlist = <<>>
    /\ t_template = <<>>
    /\ t_renders = <<>>

Init ==
    /\ \E a \in ArgsSet : MainAt("start", a)
    /\ ProductOff
    /\ TemplateOff

Next ==
    \/ ParseArgs
    \/ LoadWordlists
    \/ Compile
    \/ Show
    \/ Setup
    \/ Spawn
    \/ SpawnDone
    \/ Join
    \/ Finish
    \/ \E w \in Workers : Worker(w)

Spec == Init /\ [][Next]_vars

\* the steps of a dispatching run: spawning, the workers, joining
Dispatch ==
    \/ Spawn
    \/ SpawnDone
    \/ Join
    \/ Finish
    \/ \E w \in Workers : Worker(w)

\* the operating system schedules a thread that can run, and every subprocess
\* ends: while some thread of a dispatching run can take a step, a step is
\* eventually taken
SpecLive == Init /\ [][Next]_vars /\ WF_vars(Dispatch)

----------------------------------------------------------------------------
(* product applied to every index of every tuple of positive sizes *)

\* the program is not run while a function is applied on its own
MainOff ==
    MainAt("off", [command |-> <<>>, index |-> None, file |-> <<>>,
                   threads |-> 0, show |-> NoShow, progress |-> FALSE])

SizeTuples == SeqsUpTo(1..MaxSize, MaxLists)

InitProduct ==
    /\ p_sizes \in SizeTuples
    /\ p_tab = <<>>
    /\ MainOff
    /\ TemplateOff

\* product(n, p_sizes) for the next index n
ApplyProduct ==
    /\ Len(p_tab) < SeqProduct(p_sizes) + MaxBeyond
    /\ p_tab' = Append(p_tab, product(Len(p_tab), p_sizes))
    /\ UNCHANGED <<p_sizes, mainVars, templateVars>>

NextProduct == ApplyProduct

SpecProduct == InitProduct /\ [][NextProduct]_vars

----------------------------------------------------------------------------
(* precompute_template and gen_command applied to the commands, index-      *)
(* identifiers and wordlists that main's validation lets through            *)

Alphabet == {"a", "b"}

\* the generated identifiers
Identifiers == SeqsUpTo(Alphabet, MaxIdLen) \ {<<>>}

\* the files the generated -f arguments name, by position
GeneratedPaths == <<"p", "q", "s", "t">>

\* the -f argument path:identifier of the k-th generated wordlist
GeneratedFile(k, identifier) ==
    <<GeneratedPaths[((k - 1) % Len(GeneratedPaths)) + 1], ":">> \o identifier

\* the non-empty substrings of c
Substrings(c) == {SubSeq(c, i, j) : i, j \in 1..Len(c)} \ {<<>>}

\* the generated command line with command c, --index x and the identifiers ids
GeneratedInput(c, x, ids) ==
    [command |-> c, index |-> x,
     file |-> [k \in 1..Len(ids) |-> GeneratedFile(k, ids[k])]]

\* a run that uses the index-identifier with more than nine jobs
TwelveJobs ==
    [command |-> <<"i", " ", "A", "B", "C">>, index |-> Some(<<"i">>),
     file |-> << <<"p", ":", "A">>, <<"q", ":", "B">>, <<"t", ":", "C">> >>]

\* main hands the command line a to precompute_template: it passes
\* validation and its wordlists can be read
Accepted(a) ==
    /\ validate(a).ok
    /\ \A k \in 1..Len(validate(a).files) : read_ok(validate(a).files[k][2])

\* what precompute_template gets from main for the command line a
TemplateStart(a) ==
    /\ t_command = a.command
    /\ t_index = index_of(a)
    /\ t_wordlist = load_wordlists(validate(a).files)

\* the inputs are those of the accepted command lines: the scenarios, and
\* every generated command with every generated index-identifier and list of
\* identifiers; main rejects a -f argument whose identifier does not occur in
\* the command (line 171), so only identifiers that occur in it are generated
InitTemplate ==
    /\ \/ \E a \in Scenarios \cup {TwelveJobs} : Accepted(a) /\ TemplateStart(a)
       \/ \E c \in SeqsUpTo(Alphabet, MaxCmdLen) :
             \E x \in {None} \cup {Some(i) : i \in Identifiers} :
                \E ids \in SeqsUpTo(Identifiers \cap Substrings(c), MaxTLists) :
                   /\ Accepted(GeneratedInput(c, x, ids))
                   /\ TemplateStart(GeneratedInput(c, x, ids))
    /\ t_template = <<>>
    /\ t_renders = <<>>
    /\ MainOff
    /\ ProductOff

\* template = precompute_template(&command, &index, &loaded_wordlist)
ApplyTemplate ==
    /\ t_template = <<>>
    /\ t_template' = <<precompute_template(t_command, t_index, t_wordlist)>>
    /\ UNCHANGED <<t_command, t_index, t_wordlist, t_renders, mainVars, productVars>>

\* gen_command(&template, n, ...) for the next index n
ApplyGenCommand ==
    /\ t_template /= <<>>
    /\ ~DivByZero(lengths_of(t_wordlist))
    /\ Len(t_renders) < SeqProduct(lengths_of(t_wordlist)) + MaxBeyond
    /\ ~gen_panics(t_template[1], Len(t_renders), t_wordlist, lengths_of(t_wordlist))
    /\ t_renders' = Append(t_renders, gen_command(t_template[1], Len(t_renders),
                                                  t_wordlist, lengths_of(t_wordlist)))
    /\ UNCHANGED <<t_command, t_index, t_wordlist, t_template, mainVars, productVars>>

NextTemplate == ApplyTemplate \/ ApplyGenCommand

SpecTemplate == InitTemplate /\ [][NextTemplate]_vars

----------------------------------------------------------------------------
(* Properties of the dispatcher *)

\* a run that dispatches: no --show, at least one worker, at least one job
Dispatching == ~args.show.some /\ args.threads >= 1 /\ total_words >= 1

\* the workers that hold a claimed job index
Holding(w) == wpc[w] \in {"gen", "exec", "tick"}

\* C1: over a complete run with N >= 1 workers and total >= 1 jobs, the job
\* indices handed out are exactly 0 .. total-1, each once.
C1_HandedOutExactlyTheRange ==
    (pc = "exited" /\ exit_code = 0 /\ Dispatching)
        => /\ {claimed[k] : k \in 1..Len(claimed)} = 0..(total_words - 1)
           /\ Len(claimed) = total_words

\* C2: every index a worker has claimed, rendered or executed lies in
\* [0, total); no worker ever claims the index equal to total. (Stated for
\* total >= 1, where [0, total) is not empty.)
C2_ClaimedIndexInRange ==
    total_words >= 1 =>
        /\ \A w \in Workers : Holding(w) => (0 <= wjob[w] /\ wjob[w] < total_words)
        /\ \A i \in DOMAIN rendered \cup DOMAIN executed : 0 <= i /\ i < total_words

\* C3: the k-th claim of the whole run (k = 0, 1, 2, ...) returns exactly k,
\* so indices are claimed once each, in increasing order and without gaps, and
\* two workers never hold the same index.
C3_ClaimsInOrderNoGaps ==
    /\ \A k \in 1..Len(claimed) : claimed[k] = k - 1
    /\ \A v, w \in Workers : (v /= w /\ Holding(v) /\ Holding(w)) => wjob[v] /= wjob[w]

\* two workers hold different indices at once, after three claims
C3_Witness ==
    /\ Len(claimed) >= 3
    /\ \E v, w \in Workers : v /= w /\ Holding(v) /\ Holding(w)

----------------------------------------------------------------------------
(* Properties of product *)

\* the offset tuples of the cartesian product [0,L1) x ... x [0,Lk)
OffsetTuples(sizes) ==
    {t \in [1..Len(sizes) -> 0..(MaxSize + 1)] : \A k \in 1..Len(sizes) : t[k] < sizes[k]}

\* the number of indices in [0, total) product has been applied to
AppliedInRange == IF Len(p_tab) < SeqProduct(p_sizes) THEN Len(p_tab) ELSE SeqProduct(p_sizes)

\* C4: restricted to [0, total), product is a bijection onto the cartesian
\* product of the offset ranges: distinct indices give distinct tuples, every
\* result is an offset tuple, and every offset tuple is the result of some index.
C4_ProductBijection ==
    /\ \A i, j \in 1..AppliedInRange : i /= j => p_tab[i] /= p_tab[j]
    /\ \A i \in 1..AppliedInRange : p_tab[i] \in OffsetTuples(p_sizes)
    /\ Len(p_tab) >= SeqProduct(p_sizes)
          => {p_tab[i] : i \in 1..SeqProduct(p_sizes)} = OffsetTuples(p_sizes)

\* product has been applied to the whole range of two wordlists of two lines or more
C4_Witness ==
    /\ Len(p_sizes) >= 2
    /\ \A k \in 1..Len(p_sizes) : p_sizes[k] >= 2
    /\ Len(p_tab) >= SeqProduct(p_sizes)

\* (i div (sizes[1] * ... * sizes[k-1])) mod sizes[k]
MixedRadixDigit(i, sizes, k) == (i \div SeqProduct(SubSeq(sizes, 1, k - 1))) % sizes[k]

\* C5: for i in [0, total), offset k of product(i, sizes) is
\* (i div (sizes[1] * ... * sizes[k-1])) mod sizes[k]; the first wordlist
\* varies fastest: its offset advances by one (mod its size) with each index.
C5_ProductFormula ==
    /\ \A i \in 1..AppliedInRange :
          /\ Len(p_tab[i]) = Len(p_sizes)
          /\ \A k \in 1..Len(p_sizes) : p_tab[i][k] = MixedRadixDigit(i - 1, p_sizes, k)
    /\ \A i \in 1..(AppliedInRange - 1) :
          Len(p_sizes) >= 1 => p_tab[i + 1][1] = (p_tab[i][1] + 1) % p_sizes[1]

\* product has been applied to an index whose second and third offsets are not 0
C5_Witness ==
    /\ Len(p_sizes) = 3
    /\ \E i \in 1..AppliedInRange : p_tab[i][2] > 0 /\ p_tab[i][3] > 0

----------------------------------------------------------------------------
(* Properties of gen_command and precompute_template *)

\* the decimal text of n, digit by digit from its place values
Decimal(n) ==
    LET d == CHOOSE e \in 1..9 : n < 10^e /\ (e = 1 \/ n >= 10^(e - 1))
    IN [k \in 1..d |-> Digits[((n \div 10^(d - k)) % 10) + 1]]

RECURSIVE Flatten(_)
\* the concatenation of a sequence of strings
Flatten(ss) == IF ss = <<>> THEN <<>> ELSE Head(ss) \o Flatten(Tail(ss))

\* what a segment contributes to the command of index n: its literal, then
\* nothing (final segment), the decimal text of n (index-identifier) or the
\* value of its wordlist at that wordlist's mixed-radix digit of n
SegmentRendering(tmpl, k, n, wordlist) ==
    tmpl[k][2] \o
        (IF k = Len(tmpl) THEN <<>>
         ELSE IF tmpl[k][1] = 0 THEN Decimal(n)
         ELSE wordlist[tmpl[k][1]][2]
                  [MixedRadixDigit(n, lengths_of(wordlist), tmpl[k][1]) + 1])

\* the job count of the wordlists precompute_template was applied to
TemplateTotal == SeqProduct(lengths_of(t_wordlist))

\* the example of the specification: A = [x, y], B = [1, 2], "echo A-B"
IsExampleAB ==
    /\ t_command = <<"e", "c", "h", "o", " ", "A", "-", "B">>
    /\ t_index = <<>>
    /\ t_wordlist = << <<<<"A">>, << <<"x">>, <<"y">> >> >>,
                       <<<<"B">>, << <<"1">>, <<"2">> >> >> >>

ExampleABCommands ==
    << <<"e", "c", "h", "o", " ", "x", "-", "1">>,
       <<"e", "c", "h", "o", " ", "y", "-", "1">>,
       <<"e", "c", "h", "o", " ", "x", "-", "2">>,
       <<"e", "c", "h", "o", " ", "y", "-", "2">> >>

\* C6: for every index n in [0, total) gen_command returns the concatenation,
\* in segment order, of each segment's literal followed by the decimal text of
\* n (index-identifier segment), the value of wordlist k at offset
\* product(n, sizes)[k] (wordlist-k segment) or nothing (final segment); with
\* A = [x, y], B = [1, 2] and "echo A-B" the indices 0..3 give "echo x-1",
\* "echo y-1", "echo x-2", "echo y-2".
C6_RenderedCommand ==
    /\ \A n \in 0..(Len(t_renders) - 1) :
          n < TemplateTotal =>
              t_renders[n + 1] =
                  Flatten([k \in 1..Len(t_template[1]) |->
                              SegmentRendering(t_template[1], k, n, t_wordlist)])
    /\ IsExampleAB =>
          \A n \in 1..Len(t_renders) : n <= 4 => t_renders[n] = ExampleABCommands[n]

\* the four commands of the example have been rendered
C6_Witness == IsExampleAB /\ Len(t_renders) >= 4

\* the text the placeholder of a segment stands for
PlaceholderText(seg, index_id, wordlist) ==
    IF seg[1] = 0 THEN index_id ELSE wordlist[seg[1]][1]

RECURSIVE PlaceholderOffset(_, _, _, _)
\* the offset in the command at which the placeholder of segment k starts
PlaceholderOffset(tmpl, k, index_id, wordlist) ==
    Len(tmpl[k][2]) +
        (IF k = 1 THEN 0
         ELSE PlaceholderOffset(tmpl, k - 1, index_id, wordlist)
                 + Len(PlaceholderText(tmpl[k - 1], index_id, wordlist)))

\* "foo" registered before "foobar", command "echo foobar"
IsExampleFoo ==
    /\ t_command = <<"e", "c", "h", "o", " ", "f", "o", "o", "b", "a", "r">>
    /\ t_index = <<>>
    /\ Len(t_wordlist) = 2
    /\ t_wordlist[1][1] = <<"f", "o", "o">>
    /\ t_wordlist[2][1] = <<"f", "o", "o", "b", "a", "r">>

\* C7: where several wordlist identifiers match at one position, the one
\* registered first is taken, not the longest: a wordlist segment's identifier
\* is a prefix at the segment's position and no identifier registered before it
\* is; "echo foobar" with "foo" before "foobar" compiles to literal "echo ",
\* placeholder "foo", trailing literal "bar".
C7_FirstRegisteredWins ==
    t_template /= <<>> =>
        /\ \A k \in 1..(Len(t_template[1]) - 1) :
              t_template[1][k][1] > 0 =>
                  LET at == PlaceholderOffset(t_template[1], k, t_index, t_wordlist)
                  IN /\ starts_with(slice_from(t_command, at),
                                    t_wordlist[t_template[1][k][1]][1])
                     /\ \A j \in 1..(t_template[1][k][1] - 1) :
                           ~starts_with(slice_from(t_command, at), t_wordlist[j][1])
        /\ IsExampleFoo =>
              t_template[1] = << <<1, <<"e", "c", "h", "o", " ">>>>, <<0, <<"b", "a", "r">>>> >>

\* "echo foobar" has been compiled with "foo" registered before "foobar"
C7_Witness == IsExampleFoo /\ t_template /= <<>>

\* C8: a wordlist identifier is taken at a position only if the
\* index-identifier does not match there, also at the position right after a
\* matched index-identifier. (Stated for wordlist identifiers that differ from
\* the index-identifier.)
C8_IndexIdentifierTestedFirst ==
    (/\ t_template /= <<>>
     /\ \A j \in 1..Len(t_wordlist) : t_wordlist[j][1] /= t_index)
        => \A k \in 1..(Len(t_template[1]) - 1) :
              t_template[1][k][1] > 0 =>
                  ~index_matches(t_command,
                                 PlaceholderOffset(t_template[1], k, t_index, t_wordlist),
                                 t_index)

----------------------------------------------------------------------------
(* Properties of the run as a whole *)

\* C9: whatever the outcome of a job, the worker that ran it goes on to the
\* next claim, every index of [0, total) is executed, no job is executed twice,
\* and the run ends with exit status 0 even if every job failed.
C9_FailureIsolation ==
    /\ [][\A w \in Workers :
             /\ (wpc[w] = "exec" /\ wpc'[w] /= "exec") => wpc'[w] = "tick"
             /\ (wpc[w] = "tick" /\ wpc'[w] /= "tick") => wpc'[w] = "lock"]_vars
    /\ [](\A i \in DOMAIN executed : executed[i] = 1)
    /\ []((pc = "exited" /\ ~args.show.some /\ args.threads >= 1 /\ spawned >= 1)
             => /\ exit_code = 0
                /\ \A i \in 0..(total_words - 1) : Count(executed, i) = 1)

\* a run has ended in which every job failed
C9_Witness ==
    /\ pc = "exited"
    /\ exit_code = 0
    /\ total_words >= 2
    /\ ~any_success
    /\ \A i \in 0..(total_words - 1) : Count(executed, i) = 1

\* the identifiers of the -f arguments of the command line
ArgIdentifiers(a) == [k \in 1..Len(a.file) |-> split_line(a.file[k]).identifier]

\* two wordlist identifiers are equal, or one equals the index-identifier
IdentifierClash(a) ==
    \/ \E j, k \in 1..Len(a.file) :
          j /= k /\ ArgIdentifiers(a)[j] = ArgIdentifiers(a)[k]
    \/ a.index.some /\ \E k \in 1..Len(a.file) : ArgIdentifiers(a)[k] = a.index.val

\* C10: a command line in which two wordlist identifiers are equal, or a
\* wordlist identifier (also that of the only or the last -f) equals the
\* index-identifier, is rejected: the run aborts before any job is claimed.
C10_IdentifierClashRejected ==
    (IdentifierClash(args) /\ pc /= "start")
        => pc = "exited" /\ exit_code = 1 /\ claimed = <<>>

\* some wordlist identifier, or the configured index-identifier, does not
\* occur in the command
IdentifierNotInCommand(a) ==
    \/ \E k \in 1..Len(a.file) : ~contains(a.command, ArgIdentifiers(a)[k])
    \/ a.index.some /\ ~contains(a.command, a.index.val)

\* C11: a command line in which some wordlist identifier, or the configured
\* index-identifier, does not occur in the command is rejected, whatever the
\* number of wordlists (none included): the run aborts before any job is
\* claimed or executed.
C11_AbsentIdentifierRejected ==
    (IdentifierNotInCommand(args) /\ pc /= "start")
        => pc = "exited" /\ exit_code = 1 /\ claimed = <<>> /\ DOMAIN executed = {}

\* the run is in --show mode and has got past validation, loading and
\* compilation
ShowModeEnded == args.show.some /\ pc = "exited" /\ template /= <<>>

\* C12: with --show K no worker is spawned and no job is claimed or executed;
\* if K >= total the run aborts with an error and prints nothing, otherwise
\* exactly the command rendered for index K is printed and the process ends.
C12_ShowMode ==
    /\ args.show.some
          => /\ spawned = 0
             /\ \A w \in Workers : wpc[w] = "unborn"
             /\ claimed = <<>>
             /\ DOMAIN rendered = {} /\ DOMAIN executed = {}
             /\ next_job = 0
    /\ ShowModeEnded
          => IF args.show.val >= total_words
             THEN exit_code = 1 /\ stdout = <<>>
             ELSE /\ exit_code = 0
                  /\ stdout = << Flatten([k \in 1..Len(template) |->
                                    SegmentRendering(template, k, args.show.val,
                                                     loaded_wordlist)]) >>

\* --show 3 has printed the last of four commands
C12_Witness ==
    /\ ShowModeEnded
    /\ args.show.val = 3
    /\ total_words = 4
    /\ Len(stdout) = 1

\* C13: with --progress the progress counter is initialised with total before
\* any job is claimed and is incremented once per completed job, so it never
\* exceeds total and equals total when all workers have been joined.
C13_ProgressCounter ==
    (progress_bar.some /\ total_words >= 1)
        => /\ progress_bar.len = total_words
           /\ progress_bar.pos <= total_words
           /\ (pc = "exited" /\ args.threads >= 1) => progress_bar.pos = total_words

\* every index of [0, total) has been executed, every worker has left its
\* loop with the lock free, and main has joined them all and returned
RunCompleted ==
    /\ pc = "exited"
    /\ exit_code = 0
    /\ joined = args.threads
    /\ \A w \in 1..args.threads : wpc[w] = "done"
    /\ next_job_owner = 0
    /\ \A i \in 0..(total_words - 1) : Count(executed, i) >= 1

\* C14: under fair scheduling, with every subprocess ending, a run with
\* N >= 1 workers and total >= 1 eventually executes every index of
\* [0, total), every worker leaves its loop and main joins them all and
\* finishes; no worker waits forever for the job counter.
C14_RunCompletes ==
    (pc = "spawn" /\ args.threads >= 1 /\ total_words >= 1) ~> RunCompleted

\* a run of two workers and two or more jobs has completed
C14_Witness == RunCompleted /\ args.threads >= 2 /\ total_words >= 2 /\ spawned >= 2

\* C15: the range check and the increment are one critical section: a worker
\* holds the counter's lock exactly while it is between taking the lock and
\* leaving the block, the value it read is still the counter when it
\* increments, a successful claim raises the counter by exactly 1 and returns
\* the value before the increment, a claim that finds no more work leaves the
\* counter unchanged, and no worker holds the lock while it renders, executes
\* or ticks.
C15_ClaimIsOneCriticalSection ==
    /\ [](\A w \in Workers :
             /\ next_job_owner = w <=> wpc[w] \in {"check", "incr"}
             /\ wpc[w] = "incr" => wout[w] = next_job)
    /\ [][next_job' /= next_job =>
             \E w \in Workers :
                 /\ next_job_owner = w
                 /\ wpc[w] = "incr"
                 /\ next_job' = next_job + 1
                 /\ wjob'[w] = next_job
                 /\ claimed' = Append(claimed, next_job)
                 /\ next_job_owner' = 0]_vars
    /\ [][\A w \in Workers :
             (wpc[w] = "check" /\ wpc'[w] = "done")
                 => next_job' = next_job /\ claimed' = claimed]_vars

\* one worker has found no more work while another, which claimed a job, is
\* executing it and the lock is free
C15_Witness ==
    \E w, v \in Workers :
        /\ wpc[w] = "done"
        /\ wpc[v] = "exec"
        /\ Len(claimed) >= 2
        /\ next_job = Len(claimed)
        /\ next_job_owner = 0

\* C16: when a wordlist is empty, so that total = 0, no index is handed out:
\* no job is claimed, rendered or executed and no worker ends in a panic.
C16_EmptyRangeHandsOutNothing ==
    (pc \in {"spawn", "join", "exited"} /\ total_words = 0)
        => /\ claimed = <<>>
           /\ DOMAIN rendered = {}
           /\ DOMAIN executed = {}
           /\ \A w \in Workers : wpc[w] /= "panicked"

----------------------------------------------------------------------------
(* Further properties of precompute_template and product *)

\* the command written out again from a template: each literal followed by
\* the identifier its placeholder stands for, nothing after the final literal
WrittenOut(tmpl, index_id, wordlist) ==
    Flatten([k \in 1..Len(tmpl) |->
                tmpl[k][2] \o (IF k = Len(tmpl) THEN <<>>
                               ELSE PlaceholderText(tmpl[k], index_id, wordlist))])

\* C17: compilation loses nothing of the command: the segments returned by
\* precompute_template, written out in order, each literal followed by the
\* text of the identifier its placeholder stands for (nothing for the final
\* segment), are the raw command.
C17_CompilationLosesNothing ==
    t_template /= <<>> => WrittenOut(t_template[1], t_index, t_wordlist) = t_command

\* a command with an index-identifier placeholder, a wordlist placeholder and
\* a literal that is not empty has been compiled
C17_Witness ==
    /\ t_template /= <<>>
    /\ \E k \in 1..(Len(t_template[1]) - 1) : t_template[1][k][1] = 0
    /\ \E k \in 1..(Len(t_template[1]) - 1) : t_template[1][k][1] > 0
    /\ \E k \in 1..Len(t_template[1]) : t_template[1][k][2] /= <<>>

\* wordlists of the given sizes, and a template with one placeholder for each
WordlistsOfSizes(sizes) ==
    [k \in 1..Len(sizes) |-> << <<"A">>, [j \in 1..sizes[k] |-> <<"w">>] >>]

EverySelector(sizes) ==
    [k \in 1..(Len(sizes) + 1) |-> IF k <= Len(sizes) THEN <<k, <<>>>> ELSE <<0, <<>>>>]

\* C18: for every index i >= 0, also i >= total, and every tuple of positive
\* sizes, product(i, sizes) has one offset for each size and offset k lies in
\* [0, sizes[k]), so gen_command reads no wordlist outside its lines.
C18_OffsetsInRange ==
    \A i \in 1..Len(p_tab) :
        /\ Len(p_tab[i]) = Len(p_sizes)
        /\ \A k \in 1..Len(p_sizes) : p_tab[i][k] >= 0 /\ p_tab[i][k] < p_sizes[k]
        /\ ~gen_panics(EverySelector(p_sizes), i - 1, WordlistsOfSizes(p_sizes), p_sizes)

\* product has been applied to an index past total for two or more wordlists,
\* one of them of two lines or more
C18_Witness ==
    /\ Len(p_sizes) >= 2
    /\ \E k \in 1..Len(p_sizes) : p_sizes[k] >= 2
    /\ Len(p_tab) > SeqProduct(p_sizes) + 1

\* C19: the final segment has selector 0; a segment before it has selector 0
\* only where the index-identifier, which is then not empty, matches the
\* command, so without an index-identifier only the final segment has selector
\* 0 and the commands rendered do not depend on the job index beyond its
\* offsets; every selector is at most the number of wordlists.
C19_SelectorsWellFormed ==
    t_template /= <<>> =>
        LET tmpl == t_template[1]
        IN /\ tmpl[Len(tmpl)][1] = 0
           /\ \A k \in 1..Len(tmpl) : tmpl[k][1] >= 0 /\ tmpl[k][1] <= Len(t_wordlist)
           /\ \A k \in 1..(Len(tmpl) - 1) :
                 tmpl[k][1] = 0 =>
                     index_matches(t_command,
                                   PlaceholderOffset(tmpl, k, t_index, t_wordlist),
                                   t_index)
           /\ t_index = <<>> =>
                 /\ \A k \in 1..(Len(tmpl) - 1) : tmpl[k][1] > 0
                 /\ \A n \in 1..Len(t_renders) :
                       n > TemplateTotal => t_renders[n] = t_renders[n - TemplateTotal]

\* a command with two wordlist placeholders and no index-identifier has been
\* compiled and rendered past total
C19_Witness ==
    /\ t_template /= <<>>
    /\ t_index = <<>>
    /\ Len(t_wordlist) >= 2
    /\ \E k \in 1..(Len(t_template[1]) - 1) : t_template[1][k][1] = 2
    /\ Len(t_renders) > TemplateTotal

====
